---- MODULE Spec2Model ----
(***************************************************************************)
(* A model of sorting_script.py: organize_downloads and move_file.         *)
(* File names are sequences of one-character strings, so that suffix,      *)
(* stem, lower-casing and the "_<N>" renaming are computed, not assumed.   *)
(* Time is counted in half days.                                           *)
(***************************************************************************)
EXTENDS Integers, Sequences, FiniteSets, TLC

\* ---- bounds of the model ----
MaxFiles == 2      \* top-level entries chosen for the initial root
MaxRuns == 2       \* successive calls of organize_downloads
MaxFail == 1       \* move failures injected by the environment

\* ---- program constants ----
AgeThreshold == 30 \* line 76: file_age_days > 30
DayUnits == 2      \* clock units per day (timedelta.days is a floor)
Today0 == 100      \* datetime.now() of the first run, in clock units

category_extensions ==
  <<
    [name |-> <<"D","o","c","u","m","e","n","t","s">>,
     exts |-> {<<".","p","d","f">>,
               <<".","d","o","c","x">>,
               <<".","t","x","t">>,
               <<".","d","o","c">>,
               <<".","r","t","f">>,
               <<".","o","d","t">>,
               <<".","x","l","s","x">>,
               <<".","x","l","s">>,
               <<".","p","p","t","x">>,
               <<".","p","p","t">>,
               <<".","c","s","v">>}],
    [name |-> <<"I","m","a","g","e","s">>,
     exts |-> {<<".","j","p","g">>,
               <<".","j","p","e","g">>,
               <<".","p","n","g">>,
               <<".","g","i","f">>,
               <<".","b","m","p">>,
               <<".","t","i","f","f">>,
               <<".","s","v","g">>,
               <<".","w","e","b","p">>}],
    [name |-> <<"A","u","d","i","o">>,
     exts |-> {<<".","m","p","3">>,
               <<".","w","a","v">>,
               <<".","a","a","c">>,
               <<".","f","l","a","c">>,
               <<".","o","g","g">>,
               <<".","m","4","a">>}],
    [name |-> <<"V","i","d","e","o">>,
     exts |-> {<<".","m","p","4">>,
               <<".","a","v","i">>,
               <<".","m","k","v">>,
               <<".","m","o","v">>,
               <<".","w","m","v">>,
               <<".","f","l","v">>,
               <<".","w","e","b","m">>}],
    [name |-> <<"A","r","c","h","i","v","e","s">>,
     exts |-> {<<".","z","i","p">>,
               <<".","r","a","r">>,
               <<".","7","z">>,
               <<".","t","a","r">>,
               <<".","g","z">>,
               <<".","b","z","2">>}],
    [name |-> <<"C","o","d","e">>,
     exts |-> {<<".","p","y">>,
               <<".","j","a","v","a">>,
               <<".","h","t","m","l">>,
               <<".","c","s","s">>,
               <<".","j","s">>,
               <<".","p","h","p">>,
               <<".","c">>,
               <<".","c","p","p">>,
               <<".","h">>,
               <<".","r","b">>,
               <<".","j","s","o","n">>,
               <<".","x","m","l">>}],
    [name |-> <<"E","x","e","c","u","t","a","b","l","e","s">>,
     exts |-> {<<".","e","x","e">>,
               <<".","m","s","i">>,
               <<".","a","p","p">>,
               <<".","d","m","g">>,
               <<".","d","e","b">>,
               <<".","r","p","m">>}]
  >>

OthersName == <<"O","t","h","e","r","s">>
OldFilesName == <<"O","l","d"," ","F","i","l","e","s">>
ScriptName == <<"s","o","r","t","i","n","g","_","s","c","r","i","p","t",".","p","y">>

CategoryNames == {category_extensions[i].name : i \in 1..Len(category_extensions)}
NineNames == CategoryNames \cup {OthersName, OldFilesName}

\* ---- pure helpers: str.lower, Path.suffix, Path.stem, str(int) ----
UpperChars == <<"A","B","C","D","E","F","G","H","I","J","K","L","M","N","O","P","Q","R","S","T","U","V","W","X","Y","Z">>
LowerChars == <<"a","b","c","d","e","f","g","h","i","j","k","l","m","n","o","p","q","r","s","t","u","v","w","x","y","z">>
Digits == <<"0","1","2","3","4","5","6","7","8","9">>

LowerChar(c) ==
  IF \E i \in 1..Len(UpperChars) : UpperChars[i] = c
    THEN LowerChars[CHOOSE i \in 1..Len(UpperChars) : UpperChars[i] = c]
    ELSE c

Lower(s) == [i \in 1..Len(s) |-> LowerChar(s[i])]

\* position of the last "." of the name, 0 when there is none
RFindDot(name) ==
  IF \E i \in 1..Len(name) : name[i] = "."
    THEN CHOOSE i \in 1..Len(name) :
           /\ name[i] = "."
           /\ \A j \in (i+1)..Len(name) : name[j] # "."
    ELSE 0

\* a suffix needs a dot that is neither the first nor the last character
HasSuffix(name) == 1 < RFindDot(name) /\ RFindDot(name) < Len(name)

Suffix(name) ==
  IF HasSuffix(name) THEN SubSeq(name, RFindDot(name), Len(name)) ELSE <<>>

Stem(name) ==
  IF HasSuffix(name) THEN SubSeq(name, 1, RFindDot(name) - 1) ELSE name

RECURSIVE Str(_)
Str(n) ==
  IF n < 10 THEN <<Digits[n + 1]>>
  ELSE Str(n \div 10) \o <<Digits[(n % 10) + 1]>>

\* ---- classification (organize_downloads, lines 71-96) ----

\* the extension compared as it is spelled
FileExt_nolower(name) == Suffix(name)

\* line 72: item.suffix.lower()
FileExt(name) == Lower(Suffix(name))

\* line 75: (today - datetime.fromtimestamp(mtime)).days
FileAgeDays(now, mtime) == (now - mtime) \div DayUnits

\* thirty days counted as old
IsOld_ge(age) == age >= AgeThreshold

\* line 76
IsOld(age) == age > AgeThreshold

\* lines 84-90: the first category, in definition order, that lists the
\* extension; 0 when the loop ends without a match
RECURSIVE FindCategory(_, _)
FindCategory(i, ext) ==
  IF i > Len(category_extensions) THEN 0
  ELSE IF ext \in category_extensions[i].exts THEN i
  ELSE FindCategory(i + 1, ext)

\* lines 76-96: the directory the file is sent to
Classify(name, age) ==
  IF IsOld(age) THEN OldFilesName
  ELSE LET i == FindCategory(1, FileExt(name))
       IN IF i = 0 THEN OthersName ELSE category_extensions[i].name

\* line 110: f"{base_name}_{counter}{extension}"
Candidate(name, n) == Stem(name) \o <<"_">> \o Str(n) \o Suffix(name)

\* line 107
FirstCounter == 1

\* the counter left as it is
NextCounter_stuck(c) == c

\* line 115
NextCounter(c) == c + 1

\* ---- the initial filesystems ----
NameA == <<"a",".","t","x","t">>
NameA1 == <<"a","_","1",".","t","x","t">>
NameB == <<"b",".","P","N","G">>
NameTgz == <<"a",".","t","a","r",".","g","z">>
NameHidden == <<".","p","y">>
NameUserDir == <<"d",".","t","x","t">>
NameInner == <<"x">>
NameDocuments == category_extensions[1].name

\* the entries a root may start with: files of several ages and
\* extensions, a regular file named like a category folder, the script
\* itself and a user directory with a suffix and an old timestamp
Universe ==
  { [id |-> 1, name |-> NameA, kind |-> "file", mtime |-> Today0 - 1 * DayUnits],
    [id |-> 2, name |-> NameA, kind |-> "file", mtime |-> Today0 - 30 * DayUnits - 1],
    [id |-> 3, name |-> NameA, kind |-> "file", mtime |-> Today0 - 31 * DayUnits],
    [id |-> 4, name |-> NameA1, kind |-> "file", mtime |-> Today0 - 1 * DayUnits],
    [id |-> 5, name |-> NameB, kind |-> "file", mtime |-> Today0 - 2 * DayUnits],
    [id |-> 6, name |-> NameTgz, kind |-> "file", mtime |-> Today0 - 30 * DayUnits],
    [id |-> 7, name |-> NameHidden, kind |-> "file", mtime |-> Today0],
    [id |-> 8, name |-> NameDocuments, kind |-> "file", mtime |-> Today0 - 3 * DayUnits],
    [id |-> 9, name |-> ScriptName, kind |-> "file", mtime |-> Today0 - 40 * DayUnits],
    [id |-> 10, name |-> NameUserDir, kind |-> "dir", mtime |-> Today0 - 90 * DayUnits] }

NoFiles == [n \in {} |-> 0]

\* what earlier runs may have left in the nine folders
Prefills ==
  { [dirs |-> {}, files |-> [d \in {} |-> NoFiles]],
    [dirs |-> NineNames,
     files |-> [d \in NineNames |->
                 IF d = NameDocuments THEN (NameA :> 101) ELSE NoFiles]],
    [dirs |-> NineNames,
     files |-> [d \in NineNames |->
                 IF d = NameDocuments THEN (NameA :> 101) @@ (NameA1 :> 102)
                 ELSE IF d = OldFilesName THEN (NameA :> 103)
                 ELSE NoFiles]] }

Entry(e) == [kind |-> e.kind, id |-> e.id, mtime |-> e.mtime]
NewDir(now) == [kind |-> "dir", id |-> 0, mtime |-> now]

VARIABLES
  rootKind,      \* "absent", "file" or "dir": what downloads_path is
  root,          \* top-level entries of the root: name -> [kind, id, mtime]
  contents,      \* for each top-level directory: name -> id of its entries
  pc,            \* position in organize_downloads / move_file
  run,           \* number of calls started so far
  clock,         \* wall clock
  today,         \* line 64, captured once per run
  prepIdx,       \* index of the category of the loop of lines 43-47
  todo,          \* entries of the iterdir() listing not yet visited
  item,          \* the entry being processed
  destDir,       \* directory of the destination
  destName,      \* file name of the destination
  counter,       \* line 107
  moved_count,   \* line 62
  skipped_count, \* line 63
  created,       \* "Created directory" log entries of this run
  errors,        \* logger.error entries of this run
  relocated,     \* files really relocated in this run
  skipped,       \* entries the scan of this run passed over
  hist,          \* per processed file of this run: what was decided and done
  fails,         \* move failures injected so far
  listing,       \* the iterdir() listing of this run
  clash,         \* a regular file bore one of the nine names when the run began
  prev           \* how the previous run went

vars == <<rootKind, root, contents, pc, run, clock, today, prepIdx, todo, item,
          destDir, destName, counter, moved_count, skipped_count, created,
          errors, relocated, skipped, hist, fails, listing, clash, prev>>

fsVars == <<rootKind, root, contents>>
moveVars == <<item, destDir, destName, counter>>
countVars == <<moved_count, skipped_count>>
logVars == <<created, errors, relocated, skipped, hist, fails, listing>>
runVars == <<run, clock, today, clash, prev>>

NoName == <<>>
NoHist == [n \in {} |-> 0]

InitCommon ==
  /\ pc = "idle" /\ run = 0 /\ clock = Today0 /\ today = Today0
  /\ prepIdx = 1 /\ todo = {} /\ item = NoName
  /\ destDir = NoName /\ destName = NoName /\ counter = 0
  /\ moved_count = 0 /\ skipped_count = 0
  /\ created = <<>> /\ errors = 0 /\ relocated = 0 /\ skipped = 0
  /\ hist = NoHist /\ fails = 0 /\ listing = {} /\ clash = FALSE
  /\ prev = [ran |-> FALSE, failed |-> FALSE, clash |-> FALSE, outcome |-> "none",
              placed |-> {}]

UserContents(e) == IF e.kind = "dir" THEN (NameInner :> 110) ELSE NoFiles

Init ==
  /\ InitCommon
  /\ \/ /\ rootKind \in {"absent", "file"}
        /\ root = [n \in {} |-> 0]
        /\ contents = [n \in {} |-> 0]
     \/ /\ rootKind = "dir"
        /\ \E chosen \in SUBSET Universe, p \in Prefills :
             /\ Cardinality(chosen) <= MaxFiles
             /\ \A e1, e2 \in chosen : e1.name = e2.name => e1 = e2
             /\ \A e \in chosen : e.name \notin p.dirs
             /\ LET entryOf(n) == CHOOSE e \in chosen : e.name = n
                    names == {e.name : e \in chosen}
                IN /\ root = [n \in names \cup p.dirs |->
                               IF n \in p.dirs THEN NewDir(0) ELSE Entry(entryOf(n))]
                   /\ contents = [n \in {m \in names : entryOf(m).kind = "dir"} \cup p.dirs |->
                               IF n \in p.dirs THEN p.files[n] ELSE UserContents(entryOf(n))]

\* ---- filesystem primitives as the code uses them ----

\* the existence test left out
RootExists_always == TRUE

\* line 25: downloads_path.exists()
RootExists == rootKind # "absent"

\* Path.exists() of downloads_path / name
Exists(name) == rootKind = "dir" /\ name \in DOMAIN root

\* a usable directory downloads_path / name
IsDirectory(name) == Exists(name) /\ root[name].kind = "dir"

\* the destination taken to be free
DestExists_never(dir, name) == FALSE

\* lines 103 and 112: Path.exists() of downloads_path / dir / name; a parent
\* that is missing or is a regular file makes it False
DestExists(dir, name) == IsDirectory(dir) /\ name \in DOMAIN contents[dir]

\* mkdir called whether or not the name is taken
NeedsCreate_always(name) == TRUE

\* lines 45, 51, 57
NeedsCreate(name) == ~Exists(name)

\* directories not passed over
IsSkipped_scriptonly(name) == name = ScriptName

\* line 68
IsSkipped(name) == root[name].kind = "dir" \/ name = ScriptName

\* the source left behind by the move
RootAfterMove_copy(r, name) == r

\* the top-level entries left after shutil.move took one away
RootAfterMove(r, name) == [n \in DOMAIN r \ {name} |-> r[n]]

\* the exception let through
OnMoveError_raise == "crashed"

\* where control goes after the except clause of line 120
OnMoveError == "loop"

\* ---- organize_downloads ----

Finished == pc \in {"idle", "aborted", "crashed", "done"}

\* lines 19-29 (a call begins; the clock may have advanced since the last one)
Start ==
  /\ Finished /\ run < MaxRuns
  /\ run' = run + 1
  /\ clock' \in IF run = 0 THEN {clock} ELSE {clock, clock + DayUnits}
  /\ prev' = [ran |-> run > 0, failed |-> \E n \in DOMAIN hist : ~hist[n].ok,
              clash |-> clash, outcome |-> pc,
              placed |-> {<<hist[n].dir, hist[n].final, hist[n].id>> :
                            n \in {m \in DOMAIN hist : hist[m].ok}}]
  /\ clash' = \E n \in NineNames : Exists(n) /\ root[n].kind = "file"
  /\ created' = <<>> /\ relocated' = 0 /\ skipped' = 0 /\ hist' = NoHist
  /\ moved_count' = 0 /\ skipped_count' = 0
  /\ prepIdx' = 1 /\ todo' = {} /\ listing' = {}
  /\ IF ~RootExists
       THEN errors' = 1 /\ pc' = "aborted"
       ELSE errors' = 0 /\ pc' = "prep"
  /\ UNCHANGED <<fsVars, moveVars, today, fails>>

\* lines 45-47, 51-53, 57-59: create the directory when nothing has its name;
\* mkdir raises when the root is not a directory, and nothing catches it
EnsureDir(name, nextpc) ==
  IF NeedsCreate(name)
    THEN IF rootKind = "dir" /\ name \notin DOMAIN root
           THEN /\ root' = root @@ (name :> NewDir(clock))
                /\ contents' = contents @@ (name :> NoFiles)
                /\ created' = Append(created, name)
                /\ pc' = nextpc
                /\ UNCHANGED rootKind
           ELSE /\ pc' = "crashed"
                /\ UNCHANGED <<fsVars, created>>
    ELSE /\ pc' = nextpc
         /\ UNCHANGED <<fsVars, created>>

\* lines 43-47
PrepareCategory ==
  /\ pc = "prep"
  /\ EnsureDir(category_extensions[prepIdx].name,
               IF prepIdx = Len(category_extensions) THEN "others" ELSE "prep")
  /\ prepIdx' = prepIdx + 1
  /\ UNCHANGED <<runVars, todo, moveVars, countVars, errors, relocated, skipped, hist, fails, listing>>

\* lines 50-53
PrepareOthers ==
  /\ pc = "others"
  /\ EnsureDir(OthersName, "old")
  /\ UNCHANGED <<runVars, prepIdx, todo, moveVars, countVars, errors, relocated, skipped, hist, fails, listing>>

\* lines 56-59
PrepareOldFiles ==
  /\ pc = "old"
  /\ EnsureDir(OldFilesName, "scan")
  /\ UNCHANGED <<runVars, prepIdx, todo, moveVars, countVars, errors, relocated, skipped, hist, fails, listing>>

\* lines 62-66: the counters, today, and the listing iterdir() takes
Scan ==
  /\ pc = "scan"
  /\ moved_count' = 0 /\ skipped_count' = 0
  /\ today' = clock
  /\ todo' = DOMAIN root
  /\ listing' = DOMAIN root
  /\ pc' = "loop"
  /\ UNCHANGED <<fsVars, run, clock, clash, prev, prepIdx, moveVars, created,
                 errors, relocated, skipped, hist, fails>>

\* The listing order is the filesystem's. Files are visited in any order;
\* directories, whose visit changes nothing, are visited in one fixed order
\* between them.
TodoDirs == {n \in todo : root[n].kind = "dir"}
Visitable ==
  {n \in todo : root[n].kind # "dir"} \cup
  (IF TodoDirs = {} THEN {} ELSE {CHOOSE n \in TodoDirs : TRUE})

\* lines 68-69
SkipItem ==
  /\ pc = "loop"
  /\ \E n \in Visitable :
       /\ IsSkipped(n)
       /\ todo' = todo \ {n}
  /\ skipped' = skipped + 1
  /\ UNCHANGED <<fsVars, pc, runVars, prepIdx, moveVars, countVars, created,
                 errors, relocated, hist, fails, listing>>

\* lines 72-96 up to the call of move_file
ClassifyItem ==
  /\ pc = "loop"
  /\ \E n \in Visitable :
       /\ ~IsSkipped(n)
       /\ item' = n
       /\ destDir' = Classify(n, FileAgeDays(today, root[n].mtime))
       /\ destName' = n
  /\ counter' = 0
  /\ pc' = "move_file"
  /\ UNCHANGED <<fsVars, runVars, prepIdx, todo, countVars, logVars>>

\* ---- move_file ----

\* lines 103-107
CheckDestination ==
  /\ pc = "move_file"
  /\ IF DestExists(destDir, destName)
       THEN counter' = FirstCounter /\ pc' = "probe"
       ELSE counter' = counter /\ pc' = "move"
  /\ UNCHANGED <<fsVars, runVars, prepIdx, todo, item, destDir, destName,
                 countVars, logVars>>

\* lines 109-115, one iteration
ProbeStep ==
  /\ pc = "probe"
  /\ LET new_name == Candidate(item, counter)
     IN IF ~DestExists(destDir, new_name)
          THEN destName' = new_name /\ counter' = counter /\ pc' = "move"
          ELSE destName' = destName /\ counter' = NextCounter(counter) /\ pc' = "probe"
  /\ UNCHANGED <<fsVars, runVars, prepIdx, todo, item, destDir, countVars, logVars>>

\* lines 117-121, then the caller's moved_count += 1 (lines 79, 88, 96).
\* shutil.move renames, and a rename replaces what bears the name.
\* shutil.move fails when the destination's parent is not a directory, and
\* may fail for reasons of the environment
MoveAttempt ==
  /\ pc = "move"
  /\ \E ok \in BOOLEAN :
       /\ ok => IsDirectory(destDir)
       /\ ~ok => (~IsDirectory(destDir) \/ fails < MaxFail)
       /\ hist' = [n \in DOMAIN hist \cup {item} |->
                    IF n = item
                      THEN [id |-> root[item].id, mtime |-> root[item].mtime,
                            dir |-> destDir, final |-> destName, ok |-> ok,
                            probes |-> counter,
                            tries |-> IF item \in DOMAIN hist
                                        THEN hist[item].tries + 1 ELSE 1]
                      ELSE hist[n]]
       /\ IF ok
            THEN /\ root' = RootAfterMove(root, item)
                 /\ contents' = [contents EXCEPT ![destDir] =
                                  [m \in DOMAIN @ \cup {destName} |->
                                     IF m = destName THEN root[item].id ELSE @[m]]]
                 /\ relocated' = relocated + 1
                 /\ pc' = "loop"
                 /\ UNCHANGED <<errors, fails>>
            ELSE /\ errors' = errors + 1
                 /\ fails' = IF IsDirectory(destDir) THEN fails + 1 ELSE fails
                 /\ pc' = OnMoveError
                 /\ UNCHANGED <<root, contents, relocated>>
  /\ moved_count' = moved_count + 1
  /\ todo' = todo \ {item}
  /\ UNCHANGED <<rootKind, runVars, prepIdx, moveVars, skipped_count, created,
                 skipped, listing>>

\* line 98
Summary ==
  /\ pc = "loop" /\ todo = {}
  /\ pc' = "done"
  /\ UNCHANGED <<fsVars, runVars, prepIdx, todo, moveVars, countVars, logVars>>

Next ==
  \/ Start
  \/ PrepareCategory
  \/ PrepareOthers
  \/ PrepareOldFiles
  \/ Scan
  \/ SkipItem
  \/ ClassifyItem
  \/ CheckDestination
  \/ ProbeStep
  \/ MoveAttempt
  \/ Summary

Spec == Init /\ [][Next]_vars

\* the program is sequential and every step of it is taken
FairSpec == Spec /\ WF_vars(Next)

TypeOK ==
  /\ rootKind \in {"absent", "file", "dir"}
  /\ pc \in {"idle", "aborted", "crashed", "done", "prep", "others", "old",
             "scan", "loop", "move_file", "probe", "move"}
  /\ run \in 0..MaxRuns
  /\ DOMAIN contents = {n \in DOMAIN root : root[n].kind = "dir"}

\* ---- properties ----

\* the directories that hold the file with this id
HoldersOf(id) ==
  {d \in DOMAIN contents : \E m \in DOMAIN contents[d] : contents[d][m] = id}

\* the categories, by index, whose extension list has the extension
Listing(ext) ==
  {i \in 1..Len(category_extensions) : ext \in category_extensions[i].exts}

\* C1: every file of the scan that is not skipped and whose age in whole
\* days, (today - mtime).days, exceeds 30 is sent to "Old Files" whatever
\* its extension, and is there once its move has succeeded; a file whose
\* age is exactly 30 days is not sent to "Old Files" but to the folder of
\* its extension.
AgeDominatesCategory ==
  \A n \in DOMAIN hist :
    LET days == (today - hist[n].mtime) \div DayUnits
        cats == Listing(Lower(Suffix(n)))
    IN /\ days > 30 =>
            /\ hist[n].dir = OldFilesName
            /\ hist[n].ok => /\ HoldersOf(hist[n].id) = {OldFilesName}
                             /\ n \notin DOMAIN root
       /\ days = 30 =>
            /\ hist[n].dir # OldFilesName
            /\ cats # {} => \E i \in cats : hist[n].dir = category_extensions[i].name
            /\ cats = {} => hist[n].dir = OthersName

\* a run that moved to "Old Files" a file of more than 30 days whose
\* extension is in the map, and moved a file of exactly 30 days elsewhere
AgeDominatesCategoryWitness ==
  /\ pc = "done"
  /\ \E n \in DOMAIN hist :
       /\ (today - hist[n].mtime) \div DayUnits > 30
       /\ Listing(Lower(Suffix(n))) # {}
       /\ hist[n].ok
       /\ HoldersOf(hist[n].id) = {OldFilesName}
  /\ \E n \in DOMAIN hist :
       /\ (today - hist[n].mtime) \div DayUnits = 30
       /\ hist[n].ok
       /\ hist[n].dir \in CategoryNames

\* C2: every file of the scan that is not skipped and is at most 30 days
\* old is sent to the first category, in definition order, whose extension
\* list has the lower-cased last suffix of its name, or to "Others" when no
\* list has it; once its move has succeeded it is in that directory and in
\* no other.
RecentFilesGoByExtension ==
  \A n \in DOMAIN hist :
    LET days == (today - hist[n].mtime) \div DayUnits
        cats == Listing(Lower(Suffix(n)))
        expected == IF cats = {} THEN OthersName
                    ELSE category_extensions[
                           CHOOSE i \in cats : \A j \in cats : i <= j].name
    IN days <= 30 =>
         /\ hist[n].dir = expected
         /\ hist[n].ok => /\ HoldersOf(hist[n].id) = {expected}
                          /\ n \notin DOMAIN root

\* a run that put an upper-case extension in its category, and a name
\* without a suffix in "Others"
RecentFilesGoByExtensionWitness ==
  /\ pc = "done"
  /\ \E n \in DOMAIN hist :
       /\ hist[n].ok
       /\ Suffix(n) # Lower(Suffix(n))
       /\ hist[n].dir \in CategoryNames
       /\ HoldersOf(hist[n].id) = {hist[n].dir}
  /\ \E n \in DOMAIN hist :
       /\ hist[n].ok
       /\ hist[n].dir = OthersName
       /\ HoldersOf(hist[n].id) = {OthersName}

\* C3: no step removes or replaces an entry of a directory, and a
\* successful move adds exactly one entry, the moved file: under its own
\* name when that name was free, and otherwise under <stem>_<N><extension>
\* for the smallest N >= 1 whose name was free.
MoveNeverOverwrites ==
  [][ /\ \A d \in DOMAIN contents :
           /\ d \in DOMAIN contents'
           /\ \A n \in DOMAIN contents[d] :
                n \in DOMAIN contents'[d] /\ contents'[d][n] = contents[d][n]
      /\ (pc = "move" /\ relocated' = relocated + 1) =>
           LET taken == DOMAIN contents[destDir]
               added == DOMAIN contents'[destDir] \ taken
           IN /\ Cardinality(added) = 1
              /\ \A f \in added : contents'[destDir][f] = root[item].id
              /\ IF item \notin taken
                   THEN added = {item}
                   ELSE \E N \in 1..(Cardinality(taken) + 1) :
                          /\ added = {Stem(item) \o <<"_">> \o Str(N) \o Suffix(item)}
                          /\ \A k \in 1..(N - 1) :
                               (Stem(item) \o <<"_">> \o Str(k) \o Suffix(item)) \in taken
    ]_vars

\* a file placed at <stem>_2<extension> beside the two earlier ones
MoveNeverOverwritesWitness ==
  \E n \in DOMAIN hist :
    /\ hist[n].ok
    /\ hist[n].probes = 2
    /\ hist[n].final = Stem(n) \o <<"_", "2">> \o Suffix(n)
    /\ LET d == contents[hist[n].dir]
       IN /\ {n, Candidate(n, 1), hist[n].final} \subseteq DOMAIN d
          /\ Cardinality({d[n], d[Candidate(n, 1)], d[hist[n].final]}) = 3
          /\ d[hist[n].final] = hist[n].id

\* C4: a move that fails is reported, leaves its file where it was, is
\* tried once only and does not end the run: at the summary every entry of
\* the listing was either passed over or handed to move_file, and a run
\* that reached a move attempt reaches its summary.
MoveFailureIsContained ==
  /\ [](\A n \in DOMAIN hist :
          ~hist[n].ok =>
            /\ pc # "crashed"
            /\ errors >= 1
            /\ hist[n].tries = 1
            /\ n \in DOMAIN root /\ root[n].id = hist[n].id
            /\ HoldersOf(hist[n].id) = {})
  /\ [](pc = "done" =>
          \A n \in listing :
            \/ n \in DOMAIN hist
            \/ n \in DOMAIN root /\ IsSkipped(n))
  /\ ((pc = "move") ~> (pc = "done"))

\* a finished run in which one move failed and a later one succeeded
MoveFailureIsContainedWitness ==
  /\ pc = "done"
  /\ \E n, m \in DOMAIN hist :
       /\ ~hist[n].ok /\ n \in DOMAIN root
       /\ hist[m].ok /\ m \notin DOMAIN root
       /\ moved_count = 2 /\ relocated = 1

\* C5: on a root that does not exist a call logs an error and returns at
\* once: no directory is created, no entry is listed, examined or moved,
\* and the filesystem stays empty.
MissingRootAborts ==
  rootKind = "absent" =>
    /\ pc \in {"idle", "aborted"}
    /\ run > 0 => pc = "aborted" /\ errors = 1
    /\ DOMAIN root = {} /\ DOMAIN contents = {}
    /\ created = <<>> /\ listing = {} /\ DOMAIN hist = {}
    /\ relocated = 0 /\ moved_count = 0

\* a call on a missing root has returned
MissingRootAbortsWitness ==
  rootKind = "absent" /\ run > 0 /\ pc = "aborted" /\ errors = 1

\* C6: no step changes a top-level directory other than the nine folders:
\* it stays in the root under its name, with its attributes and contents.
UserDirectoriesUntouched ==
  [][ \A d \in DOMAIN root :
        (root[d].kind = "dir" /\ d \notin NineNames) =>
          /\ d \in DOMAIN root' /\ root'[d] = root[d]
          /\ d \in DOMAIN contents' /\ contents'[d] = contents[d]
    ]_vars

\* a finished run that moved a file and left in place a directory that has
\* a listed suffix and is older than 30 days
UserDirectoriesUntouchedWitness ==
  /\ pc = "done" /\ relocated >= 1
  /\ \E d \in listing :
       /\ d \in DOMAIN root /\ root[d].kind = "dir" /\ d \notin NineNames
       /\ Listing(Lower(Suffix(d))) # {}
       /\ (today - root[d].mtime) \div DayUnits > 30
       /\ contents[d] = (NameInner :> 110)

\* every file the previous run placed is where that run put it
PlacedFilesKept ==
  \A p \in prev.placed :
    /\ p[1] \in DOMAIN contents
    /\ p[2] \in DOMAIN contents[p[1]]
    /\ contents[p[1]][p[2]] = p[3]

\* C7, as stated: in a run that follows another, every file the earlier run
\* placed stays where it was put, and when no move of the earlier run
\* failed the later run moves no file and creates no directory.
SecondRunChangesNothing ==
  prev.ran =>
    /\ PlacedFilesKept
    /\ ~prev.failed =>
         /\ relocated = 0 /\ moved_count = 0 /\ DOMAIN hist = {}
         /\ created = <<>>

\* C7, amended: the same, for an earlier run that began with none of the
\* nine folder names borne by a regular file.
SecondRunChangesNothingUnlessNameTaken ==
  prev.ran =>
    /\ PlacedFilesKept
    /\ (~prev.failed /\ ~prev.clash) =>
         /\ relocated = 0 /\ moved_count = 0 /\ DOMAIN hist = {}
         /\ created = <<>>

\* a second run has finished after a first one that placed files, in which
\* no move failed and no folder name was taken
SecondRunChangesNothingWitness ==
  /\ pc = "done" /\ prev.ran /\ prev.outcome = "done"
  /\ ~prev.failed /\ ~prev.clash
  /\ prev.placed # {}
  /\ skipped >= Cardinality(NineNames)

AfterPreparation == pc \in {"scan", "loop", "move_file", "probe", "move", "done"}

\* no "Created directory" entry is logged for a name that exists, and no
\* name is logged twice in a run
CreationLoggedOnce ==
  /\ \A i, j \in 1..Len(created) : created[i] = created[j] => i = j
  /\ \A i \in 1..Len(created) : IsDirectory(created[i])

\* C8, as stated: on a root that exists the preparation raises nothing and
\* leaves all nine directories in place; run again after a finished run
\* it creates nothing and logs nothing.
PreparationIdempotent ==
  rootKind # "absent" =>
    /\ pc # "crashed"
    /\ AfterPreparation => \A n \in NineNames : IsDirectory(n)
    /\ CreationLoggedOnce
    /\ (prev.ran /\ prev.outcome = "done") => created = <<>>

\* C8, amended: the same, on a root that is a directory and in which no
\* regular file bears one of the nine folder names (for the second
\* preparation: nor did when the earlier run began).
PreparationIdempotentUnlessNameTaken ==
  (rootKind = "dir" /\ ~clash) =>
    /\ pc # "crashed"
    /\ AfterPreparation => \A n \in NineNames : IsDirectory(n)
    /\ CreationLoggedOnce
    /\ (prev.ran /\ prev.outcome = "done" /\ ~prev.clash) => created = <<>>

\* a first preparation created all nine directories, and the preparation
\* of the next run has completed
PreparationIdempotentWitness ==
  /\ rootKind = "dir" /\ ~clash /\ ~prev.clash
  /\ prev.ran /\ prev.outcome = "done"
  /\ AfterPreparation /\ created = <<>>
  /\ \A n \in NineNames : IsDirectory(n)
  /\ \E n \in NineNames : root[n].mtime = Today0

\* C9: at the summary moved_count is the number of files relocated in the
\* run and skipped_count the number of listed entries passed over.
SummaryCountsAccurate ==
  pc = "done" => moved_count = relocated /\ skipped_count = skipped

\* C10: the probing loop ends. While it runs the counter is at least 1,
\* every smaller candidate is taken, and the counter is at most one more
\* than the number of entries of the directory; it leaves with the first
\* free candidate as destination; and every call of move_file reaches the
\* move attempt.
ProbingTerminates ==
  /\ [](pc = "probe" =>
          /\ counter >= 1
          /\ counter <= Cardinality(DOMAIN contents[destDir]) + 1
          /\ \A k \in 1..(counter - 1) :
               (Stem(item) \o <<"_">> \o Str(k) \o Suffix(item))
                 \in DOMAIN contents[destDir])
  /\ []((pc = "move" /\ counter >= 1) =>
          /\ destName = Stem(item) \o <<"_">> \o Str(counter) \o Suffix(item)
          /\ ~DestExists(destDir, destName))
  /\ ((pc = "move_file") ~> (pc = "move"))

\* the loop left after more than one iteration
ProbingTerminatesWitness ==
  /\ pc = "move" /\ counter >= 2
  /\ DestExists(destDir, item)
  /\ DestExists(destDir, Candidate(item, 1))
  /\ ~DestExists(destDir, destName)
====
